---- MODULE Spec2Model ----
(***************************************************************************)
(* RedisCache (the ICache adapter over an ioredis client) and the App that *)
(* uses it.  The adapter holds one client; every contract call hands one   *)
(* command to the client, which queues it until the connection is ready    *)
(* and then has the store execute the queued commands in order.            *)
(***************************************************************************)
EXTENDS Integers, Sequences, FiniteSets, TLC

VARIABLES
    store,      \* the backing store: key -> [val, exp], defined on the keys present
    status,     \* the client's connection status: "connecting", "ready", "end"
    queue,      \* commands handed to the client and not yet answered, oldest first
    calls,      \* per caller: the contract call it made last and how it stands
    stdout,     \* console.log lines, oldest first
    stderr,     \* console.error lines, oldest first
    running,    \* the node process is alive
    pc,         \* where App.run / the module's then-catch stands
    last,       \* history: per key, what the last completed set/delete established
    everSet,    \* history: the keys some set(k, ...) was ever issued for
    closes,     \* history: the number of times close() was called
    seen        \* history: per observed key, what the gets completed since it last changed returned

vars == <<store, status, queue, calls, stdout, stderr, running, pc, last, everSet, closes, seen>>

(***************************************************************************)
(* Bounds of the model.                                                    *)
(***************************************************************************)
MaxTtl == 2          \* the ttl arguments tried are -1 .. MaxTtl, and omitted
MaxErrors == 1       \* 'error' events emitted in one run
MaxDrops == 1        \* times an established connection is lost in one run
MaxAppTicks == 2     \* seconds that pass during one run of the App

(***************************************************************************)
(* Inputs.                                                                 *)
(***************************************************************************)
AppKey == "myKey"
AppValue == "myValue"
AppTtl == 3600

Callers == {"c1", "c2"}
AppCaller == "app"
Keys == {AppKey, "otherKey"}
Values == {AppValue, "otherValue"}
\* ttl?: number -- omitted is <<>>, a given number n is <<n>>
Ttls == {<<>>} \cup {<<n>> : n \in (0 - 1)..MaxTtl}

Null == "null"              \* the client's reply to GET of a missing key
Void == "undefined"         \* what a Promise<void> resolves to
NoError == "none"
ExpireError == "ERR invalid expire time in 'set' command"
ClosedError == "Connection is closed."
StoreError == "store error"

ConnectLine == <<"Redis client connected to the server">>
ErrorLine == <<"Redis client not connected to the server:", "err">>

(***************************************************************************)
(* The store's commands, as the adapter uses them.                         *)
(***************************************************************************)
\* this.client.get(key)
GET(key) == [name |-> "GET", key |-> key, val |-> "", ex |-> <<>>]
\* this.client.set(key, value)
SET(key, value) == [name |-> "SET", key |-> key, val |-> value, ex |-> <<>>]
\* this.client.set(key, value, 'EX', ttl)
SETEX(key, value, seconds) == [name |-> "SET", key |-> key, val |-> value, ex |-> <<seconds>>]
\* this.client.del(key)
DEL(key) == [name |-> "DEL", key |-> key, val |-> "", ex |-> <<>>]

Without(s, key) == [k \in (DOMAIN s) \ {key} |-> s[k]]
With(s, key, entry) == [k \in (DOMAIN s) \cup {key} |-> IF k = key THEN entry ELSE s[k]]

\* What the store does with one command: its new content and its reply.
redis(s, cmd) ==
    CASE cmd.name = "GET" ->
           [store |-> s, ok |-> TRUE, err |-> NoError,
            reply |-> IF cmd.key \in DOMAIN s THEN s[cmd.key].val ELSE Null]
      [] cmd.name = "SET" /\ cmd.ex = <<>> ->
           [store |-> With(s, cmd.key, [val |-> cmd.val, exp |-> <<>>]),
            ok |-> TRUE, err |-> NoError, reply |-> "OK"]
      [] cmd.name = "SET" /\ cmd.ex # <<>> ->
           IF cmd.ex[1] > 0
           THEN [store |-> With(s, cmd.key, [val |-> cmd.val, exp |-> cmd.ex]),
                 ok |-> TRUE, err |-> NoError, reply |-> "OK"]
           ELSE [store |-> s, ok |-> FALSE, err |-> ExpireError, reply |-> ""]
      [] cmd.name = "DEL" ->
           [store |-> Without(s, cmd.key), ok |-> TRUE, err |-> NoError,
            reply |-> IF cmd.key \in DOMAIN s THEN "1" ELSE "0"]

\* One second passes in the store: entries with an expiry age, and go at zero.
expire(s) ==
    [k \in {x \in DOMAIN s : s[x].exp = <<>> \/ s[x].exp[1] > 1} |->
        IF s[k].exp = <<>> THEN s[k]
        ELSE [val |-> s[k].val, exp |-> <<s[k].exp[1] - 1>>]]

(***************************************************************************)
(* A caller's record of its contract call.                                 *)
(***************************************************************************)
Idle == [pc |-> "idle", op |-> "", key |-> "", val |-> "", ttl |-> <<>>,
         result |-> "", err |-> NoError,
         fresh |-> FALSE, ahead |-> 0, offline |-> FALSE]

Settled(c) == calls[c].pc \in {"resolved", "rejected"}
Pending(c) == calls[c].pc = "pending"
CanCall(c) == running /\ c \in DOMAIN calls /\ ~Pending(c)
NumPending == Cardinality({c \in DOMAIN calls : Pending(c)})

(***************************************************************************)
(* History kept for stating the claims.                                    *)
(***************************************************************************)
Unknown == [kind |-> "unknown", val |-> "", ttl |-> 0, n |-> 0]
\* set(k, v) with no ttl has completed; n: whether a second has passed since
Plain(v, n) == [kind |-> "plain", val |-> v, ttl |-> 0, n |-> n]
\* set(k, v, t) with positive t has completed; n: the seconds passed since
Timed(v, t, n) == [kind |-> "timed", val |-> v, ttl |-> t, n |-> n]
\* set(k, v) with no ttl has completed on an entry that had left seconds to
\* live: left counts down as they pass, and n is 2 once they have all passed
Overwrote(v, left, n) == [kind |-> "plain", val |-> v, ttl |-> left, n |-> n]
\* set(k, v, 0) has completed; n: whether a second has passed since
Zero(v, n) == [kind |-> "zero", val |-> v, ttl |-> 0, n |-> n]
\* n (1 or more) delete(k) in succession have completed; prior: whether the
\* last of them found an entry
Deleted(n, prior) == [kind |-> "deleted", val |-> prior, ttl |-> 0, n |-> n]

othersPending(c, key, ops) ==
    \E d \in (DOMAIN calls) \ {c} :
        Pending(d) /\ calls[d].key = key /\ calls[d].op \in ops

\* a get, set or delete of key is issued: a set, or a delete that follows
\* anything but a delete, ends what was established for the key
lastOnIssue(op, key) ==
    CASE op = "get" -> last
      [] op = "set" -> [last EXCEPT ![key] = Unknown]
      [] op = "delete" ->
           [last EXCEPT ![key] = IF @.kind = "deleted" THEN @ ELSE Unknown]

\* caller c's call completes with the client's answer r: it establishes the
\* key's state unless a later set or delete of the key is already issued
lastOnSettle(c, r) ==
    LET call == calls[c] IN
    CASE call.op = "get" -> last
      [] call.op = "set" ->
           IF r.ok /\ ~othersPending(c, call.key, {"set", "delete"})
           THEN [last EXCEPT ![call.key] =
                    IF call.ttl = <<>>
                    THEN IF call.key \in DOMAIN store /\ store[call.key].exp # <<>>
                         THEN Overwrote(call.val, store[call.key].exp[1], 0)
                         ELSE Plain(call.val, 0)
                    ELSE IF call.ttl[1] > 0 THEN Timed(call.val, call.ttl[1], 0)
                    ELSE IF call.ttl[1] = 0 THEN Zero(call.val, 0)
                    ELSE Unknown]
           ELSE last
      [] call.op = "delete" ->
           IF r.ok /\ ~othersPending(c, call.key, {"set"})
           THEN [last EXCEPT ![call.key] =
                    Deleted(IF @.kind = "deleted" THEN 2 ELSE 1,
                            IF call.key \in DOMAIN store THEN "present" ELSE "absent")]
           ELSE last

lastOnTick ==
    [k \in Keys |->
        CASE last[k].kind = "timed" /\ last[k].n <= last[k].ttl ->
               Timed(last[k].val, last[k].ttl, last[k].n + 1)
          [] last[k].kind = "plain" /\ last[k].ttl > 1 ->
               Overwrote(last[k].val, last[k].ttl - 1, 1)
          [] last[k].kind = "plain" /\ last[k].ttl = 1 ->
               Overwrote(last[k].val, 0, 2)
          [] last[k].kind = "plain" /\ last[k].ttl = 0 ->
               Plain(last[k].val, IF last[k].n = 2 THEN 2 ELSE 1)
          [] last[k].kind = "zero" -> Zero(last[k].val, 1)
          [] OTHER -> last[k]]

\* no get(k) has completed since a set(k, ...) or delete(k) completed or k expired
NotSeen == <<>>
\* n (1, or 2 for more) get(k) have completed since, the last returning result
Seen(result, n) == <<result, n>>

\* a call completes, call being its record before and after its record then
seenOnSettle(call, after) ==
    CASE call.op = "get" ->
           IF after.pc = "resolved" /\ call.key \in DOMAIN seen
           THEN [seen EXCEPT ![call.key] =
                    Seen(after.result, IF @ = NotSeen THEN 1 ELSE 2)]
           ELSE seen
      [] call.op \in {"set", "delete"} ->
           [k \in DOMAIN seen |-> IF k = call.key THEN NotSeen ELSE seen[k]]

seenOnTick ==
    [k \in DOMAIN seen |->
        IF k \in DOMAIN store /\ k \notin DOMAIN expire(store) THEN NotSeen
        ELSE seen[k]]

\* at the issue of get(key): a completed set with ttl is still in its window
freshAt(key) == last[key].kind = "timed" /\ last[key].n < last[key].ttl

(***************************************************************************)
(* The client (ioredis) as the adapter relies on it.                       *)
(***************************************************************************)
\* A command handed to the client joins its queue, whatever the connection
\* status (the offline queue); after quit() the client refuses it at once.
\* fin marks the command whose reply the calling method finishes on.
sendCommand(q, c, cmd, fin) ==
    IF status = "end" THEN q
    ELSE Append(q, [name |-> cmd.name, key |-> cmd.key, val |-> cmd.val,
                    ex |-> cmd.ex, by |-> c, fin |-> fin])

RECURSIVE sendCommands(_, _, _)
sendCommands(q, c, cmds) ==
    IF cmds = <<>> THEN q
    ELSE sendCommands(sendCommand(q, c, Head(cmds), Len(cmds) = 1), c, Tail(cmds))

\* A contract method is entered by caller c and hands its commands to the
\* client: the promise it returns is pending until the client answers.
invoke(c, op, key, value, ttl, cmds) ==
    /\ queue' = sendCommands(queue, c, cmds)
    /\ calls' = [calls EXCEPT ![c] =
          [pc |-> IF status = "end" THEN "rejected" ELSE "pending",
           op |-> op, key |-> key, val |-> value, ttl |-> ttl, result |-> "",
           err |-> IF status = "end" THEN ClosedError ELSE NoError,
           fresh |-> op = "get" /\ freshAt(key),
           ahead |-> NumPending, offline |-> status # "ready"]]
    /\ last' = lastOnIssue(op, key)
    /\ everSet' = IF op = "set" THEN everSet \cup {key} ELSE everSet
    /\ UNCHANGED <<store, status, running, closes, seen>>

(***************************************************************************)
(* RedisCache.                                                             *)
(***************************************************************************)
\* mutant: the test is ttl !== undefined, which 0 passes
Truthy_definedOnly(ttl) == ttl # <<>>

\* if (ttl): a number is truthy unless it is 0; undefined is not
Truthy(ttl) == ttl # <<>> /\ ttl[1] # 0

\* mutant: a get gives the entry it finds its full life again
get_refreshesTtl(c, key) ==
    /\ CanCall(c)
    /\ IF key \in DOMAIN store /\ store[key].exp # <<>>
       THEN invoke(c, "get", key, "", <<>>,
                   <<SETEX(key, store[key].val, MaxTtl), GET(key)>>)
       ELSE invoke(c, "get", key, "", <<>>, <<GET(key)>>)

\* mutant: get fails at once while the client is not connected
get_failsFast(c, key) ==
    /\ CanCall(c)
    /\ IF status = "ready"
       THEN invoke(c, "get", key, "", <<>>, <<GET(key)>>)
       ELSE /\ calls' = [calls EXCEPT ![c] =
                  [Idle EXCEPT !.pc = "rejected", !.op = "get", !.key = key,
                               !.err = "not connected", !.offline = TRUE]]
            /\ UNCHANGED <<queue, last, everSet, store, status, running, closes, seen>>

\* async get<T>(key): return this.client.get(key)
get(c, key) ==
    /\ CanCall(c)
    /\ invoke(c, "get", key, "", <<>>, <<GET(key)>>)

\* mutant: ttl defaults to one second when it is not given
set_defaultTtl(c, key, value, ttl) ==
    /\ CanCall(c)
    /\ invoke(c, "set", key, value, ttl,
              <<SETEX(key, value, IF Truthy(ttl) THEN ttl[1] ELSE 1)>>)

\* mutant: a key that is present when set is called is left as it is
set_onlyIfAbsent(c, key, value, ttl) ==
    /\ CanCall(c)
    /\ IF key \in DOMAIN store
       THEN invoke(c, "set", key, value, ttl, <<GET(key)>>)
       ELSE IF Truthy(ttl)
            THEN invoke(c, "set", key, value, ttl, <<SETEX(key, value, ttl[1])>>)
            ELSE invoke(c, "set", key, value, ttl, <<SET(key, value)>>)

\* mutant: without a ttl, the expiry the key has is kept
set_keepsTtl(c, key, value, ttl) ==
    /\ CanCall(c)
    /\ IF Truthy(ttl)
       THEN invoke(c, "set", key, value, ttl, <<SETEX(key, value, ttl[1])>>)
       ELSE IF key \in DOMAIN store /\ store[key].exp # <<>>
            THEN invoke(c, "set", key, value, ttl,
                        <<SETEX(key, value, store[key].exp[1])>>)
            ELSE invoke(c, "set", key, value, ttl, <<SET(key, value)>>)

\* mutant: the value is stored first and the expiry added by a second command
set_twoCommands(c, key, value, ttl) ==
    /\ CanCall(c)
    /\ IF Truthy(ttl)
       THEN invoke(c, "set", key, value, ttl,
                   <<SET(key, value), SETEX(key, value, ttl[1])>>)
       ELSE invoke(c, "set", key, value, ttl, <<SET(key, value)>>)

\* mutant: the ttl is never forwarded
set_dropsTtl(c, key, value, ttl) ==
    /\ CanCall(c)
    /\ invoke(c, "set", key, value, ttl, <<SET(key, value)>>)

\* async set(key, value, ttl?)
set(c, key, value, ttl) ==
    /\ CanCall(c)
    /\ IF Truthy(ttl)
       THEN invoke(c, "set", key, value, ttl, <<SETEX(key, value, ttl[1])>>)
       ELSE invoke(c, "set", key, value, ttl, <<SET(key, value)>>)

\* mutant: delete removes every key
delete_everyKey(c, key) ==
    /\ CanCall(c)
    /\ invoke(c, "delete", key, "", <<>>, <<DEL(AppKey), DEL("otherKey")>>)

\* mutant: delete reads the key instead of removing it
delete_callsGet(c, key) ==
    /\ CanCall(c)
    /\ invoke(c, "delete", key, "", <<>>, <<GET(key)>>)

\* async delete(key): await this.client.del(key)
delete(c, key) ==
    /\ CanCall(c)
    /\ invoke(c, "delete", key, "", <<>>, <<DEL(key)>>)

\* mutant: a missing key is thrown as an error by get
settle_nullThrows(call, r) ==
    IF r.ok /\ ~(call.op = "get" /\ r.reply = Null)
    THEN [call EXCEPT !.pc = "resolved", !.val = "", !.ttl = <<>>, !.ahead = 0, !.fresh = FALSE,
                      !.result = IF call.op = "get" THEN r.reply ELSE Void]
    ELSE [call EXCEPT !.pc = "rejected", !.val = "", !.ttl = <<>>, !.ahead = 0, !.fresh = FALSE,
                      !.err = IF r.ok THEN "not found" ELSE r.err]

\* mutant: a rejected command is caught and swallowed
settle_swallows(call, r) ==
    [call EXCEPT !.pc = "resolved", !.val = "", !.ttl = <<>>, !.ahead = 0, !.fresh = FALSE,
                 !.result = IF call.op = "get" /\ r.ok THEN r.reply ELSE Void]

\* mutant: delete throws when the store removed nothing
settle_delMissingThrows(call, r) ==
    IF r.ok /\ ~(call.op = "delete" /\ r.reply = "0")
    THEN [call EXCEPT !.pc = "resolved", !.val = "", !.ttl = <<>>, !.ahead = 0, !.fresh = FALSE,
                      !.result = IF call.op = "get" THEN r.reply ELSE Void]
    ELSE [call EXCEPT !.pc = "rejected", !.val = "", !.ttl = <<>>, !.ahead = 0, !.fresh = FALSE,
                      !.err = IF r.ok THEN "not found" ELSE r.err]

\* How the method's promise settles on the client's answer r: get returns the
\* reply as it is, set and delete return nothing, a rejection is passed on.
settle(call, r) ==
    IF r.ok
    THEN [call EXCEPT !.pc = "resolved", !.val = "", !.ttl = <<>>, !.ahead = 0, !.fresh = FALSE,
                      !.result = IF call.op = "get" THEN r.reply ELSE Void]
    ELSE [call EXCEPT !.pc = "rejected", !.val = "", !.ttl = <<>>, !.ahead = 0, !.fresh = FALSE,
                      !.err = r.err]

\* close(): this.client.quit() -- the connection ends; what is still queued
\* is refused by the client.
close ==
    /\ running
    /\ status' = "end"
    /\ queue' = <<>>
    /\ calls' = [c \in DOMAIN calls |->
                    IF Pending(c)
                    THEN settle(calls[c], [store |-> store, ok |-> FALSE,
                                           err |-> ClosedError, reply |-> ""])
                    ELSE calls[c]]
    /\ closes' = closes + 1
    /\ UNCHANGED <<store, running, last, everSet, seen>>

\* mutant: the handler rethrows, which ends the process
onError_throws ==
    /\ stderr' = Append(stderr, ErrorLine)
    /\ running' = FALSE
    /\ UNCHANGED <<calls, queue, closes, seen>>

\* this.client.on('error', (err) => console.error(...))
onError ==
    /\ stderr' = Append(stderr, ErrorLine)
    /\ UNCHANGED <<calls, queue, running, closes, seen>>

\* this.client.on('connect', () => console.log(...))
onConnect ==
    /\ stdout' = Append(stdout, ConnectLine)
    /\ UNCHANGED <<calls, queue, running, closes, seen>>

(***************************************************************************)
(* Events of the client and the store.                                     *)
(***************************************************************************)
\* The connection is established: 'connect' is emitted.
connected ==
    /\ running
    /\ status = "connecting"
    /\ status' = "ready"
    /\ onConnect
    /\ UNCHANGED <<store, stderr, pc, last, everSet>>

\* An established connection is lost: the client reconnects, keeping its queue.
connectionLost ==
    /\ running
    /\ status = "ready"
    /\ Len(stdout) <= MaxDrops
    /\ status' = "connecting"
    /\ UNCHANGED <<store, queue, calls, stdout, stderr, running, pc, last, everSet, closes, seen>>

\* A connection failure: the client emits 'error'.
emitError ==
    /\ running
    /\ status # "end"
    /\ Len(stderr) < MaxErrors
    /\ onError
    /\ UNCHANGED <<store, status, stdout, pc, last, everSet>>

\* The client's answer r to the oldest queued command settles its call.
answer(cmd, r) ==
    /\ store' = r.store
    /\ queue' = Tail(queue)
    /\ calls' = IF ~cmd.fin THEN calls
                ELSE [c \in DOMAIN calls |->
                        IF c = cmd.by THEN settle(calls[c], r)
                        ELSE IF Pending(c) /\ calls[c].ahead > 0
                             THEN [calls[c] EXCEPT !.ahead = @ - 1]
                             ELSE calls[c]]
    /\ last' = IF cmd.fin THEN lastOnSettle(cmd.by, r) ELSE last
    /\ seen' = IF cmd.fin THEN seenOnSettle(calls[cmd.by], calls'[cmd.by]) ELSE seen
    /\ UNCHANGED <<status, stdout, stderr, running, pc, everSet, closes>>

\* On a ready connection the store executes the oldest queued command.
exec ==
    /\ running
    /\ status = "ready"
    /\ queue # <<>>
    /\ answer(Head(queue), redis(store, Head(queue)))

\* The store fails the oldest queued command for a reason of its own.
commandFails ==
    /\ running
    /\ status = "ready"
    /\ queue # <<>>
    /\ answer(Head(queue), [store |-> store, ok |-> FALSE, err |-> StoreError,
                            reply |-> ""])

\* One second passes.
tick ==
    /\ running
    /\ store' = expire(store)
    /\ last' = lastOnTick
    /\ seen' = seenOnTick
    /\ UNCHANGED <<status, queue, calls, stdout, stderr, running, pc, everSet, closes>>

(***************************************************************************)
(* Callers of one adapter instance.                                        *)
(***************************************************************************)
Call(C, K, V, T) ==
    /\ \E c \in C :
          \/ \E k \in K : get(c, k)
          \/ \E k \in K, v \in V, t \in T : set(c, k, v, t)
          \/ \E k \in K : delete(c, k)
    /\ UNCHANGED <<stdout, stderr, pc>>

Init ==
    /\ store = <<>>
    /\ status = "connecting"
    /\ queue = <<>>
    /\ calls = [c \in Callers |-> Idle]
    /\ stdout = <<>>
    /\ stderr = <<>>
    /\ running = TRUE
    /\ pc = "noapp"
    /\ last = [k \in Keys |-> Unknown]
    /\ everSet = {}
    /\ closes = 0
    /\ seen = [k \in {} |-> NotSeen]

Next ==
    \/ Call(Callers, {AppKey}, Values, Ttls)
    \/ connected
    \/ connectionLost
    \/ emitError
    \/ exec
    \/ tick

Spec == Init /\ [][Next]_vars

\* The same adapter with the calls' arguments fixed, the connection being
\* established whenever it can be and the store serving what is queued.
LiveNext ==
    \/ Call(Callers, {AppKey}, {AppValue}, {<<>>, <<1>>})
    \/ connected
    \/ connectionLost
    \/ emitError
    \/ exec
    \/ tick

LiveSpec == Init /\ [][LiveNext]_vars /\ WF_vars(connected) /\ WF_vars(exec)

\* One caller using every key on a connection that, once established, stays,
\* the gets of each key observed.
KeyInit ==
    /\ store = <<>>
    /\ status = "connecting"
    /\ queue = <<>>
    /\ calls = [c \in {"c1"} |-> Idle]
    /\ stdout = <<>>
    /\ stderr = <<>>
    /\ running = TRUE
    /\ pc = "noapp"
    /\ last = [k \in Keys |-> Unknown]
    /\ everSet = {}
    /\ closes = 0
    /\ seen = [k \in Keys |-> NotSeen]

KeyNext ==
    \/ Call({"c1"}, Keys, Values, Ttls)
    \/ connected
    \/ exec
    \/ tick

KeySpec == KeyInit /\ [][KeyNext]_vars

(***************************************************************************)
(* Two callers that each check and then set: get(k), and set(k, own value) *)
(* only if the get returned null.                                          *)
(***************************************************************************)
ownValue(c) == IF c = "c1" THEN AppValue ELSE "otherValue"

checkThenSet_get(c) ==
    /\ calls[c].pc = "idle"
    /\ get(c, AppKey)
    /\ UNCHANGED <<stdout, stderr, pc>>

checkThenSet_set(c) ==
    /\ calls[c].op = "get" /\ calls[c].pc = "resolved" /\ calls[c].result = Null
    /\ set(c, AppKey, ownValue(c), <<>>)
    /\ UNCHANGED <<stdout, stderr, pc>>

CasNext ==
    \/ \E c \in Callers : checkThenSet_get(c)
    \/ \E c \in Callers : checkThenSet_set(c)
    \/ connected
    \/ connectionLost
    \/ emitError
    \/ exec
    \/ tick

CasSpec == Init /\ [][CasNext]_vars

(***************************************************************************)
(* App: run() and the module's top level.  pc names the line run() is at.  *)
(***************************************************************************)
appResolved == calls[AppCaller].pc = "resolved"

\* line 12: await this.cache.set('myKey', 'myValue', 3600)
run_12 ==
    /\ pc = "l12"
    /\ set(AppCaller, AppKey, AppValue, <<AppTtl>>)
    /\ pc' = "l12await"
    /\ UNCHANGED <<stdout, stderr>>

\* mutant: line 12 is not awaited, the get is issued at once
run_13_noAwait ==
    /\ pc = "l12await"
    /\ running
    /\ invoke(AppCaller, "get", AppKey, "", <<>>, <<GET(AppKey)>>)
    /\ pc' = "l13await"
    /\ UNCHANGED <<stdout, stderr>>

\* line 13: const value = await this.cache.get('myKey')
run_13 ==
    /\ pc = "l12await" /\ appResolved
    /\ get(AppCaller, AppKey)
    /\ pc' = "l13await"
    /\ UNCHANGED <<stdout, stderr>>

\* mutant: line 15 is missing, the second get follows the first at once
run_14_15_noDelete ==
    /\ pc = "l13await" /\ appResolved
    /\ stdout' = Append(stdout, <<"Cached Value:", calls[AppCaller].result>>)
    /\ get(AppCaller, AppKey)
    /\ pc' = "l16await"
    /\ UNCHANGED stderr

\* lines 14-15: console.log('Cached Value:', value); await this.cache.delete('myKey')
run_14_15 ==
    /\ pc = "l13await" /\ appResolved
    /\ stdout' = Append(stdout, <<"Cached Value:", calls[AppCaller].result>>)
    /\ delete(AppCaller, AppKey)
    /\ pc' = "l15await"
    /\ UNCHANGED stderr

\* line 16: const deletedValue = await this.cache.get('myKey')
run_16 ==
    /\ pc = "l15await" /\ appResolved
    /\ get(AppCaller, AppKey)
    /\ pc' = "l16await"
    /\ UNCHANGED <<stdout, stderr>>

\* line 17: console.log('Deleted Value:', deletedValue); run() resolves
run_17 ==
    /\ pc = "l16await" /\ appResolved
    /\ running
    /\ stdout' = Append(stdout, <<"Deleted Value:", calls[AppCaller].result>>)
    /\ pc' = "resolved"
    /\ UNCHANGED <<store, status, queue, calls, stderr, running, last, everSet, closes, seen>>

\* an awaited call was rejected: run() rejects, the lines after it are skipped
run_throws ==
    /\ pc \in {"l12await", "l13await", "l15await", "l16await"}
    /\ calls[AppCaller].pc = "rejected"
    /\ running
    /\ pc' = "rejected"
    /\ UNCHANGED <<store, status, queue, calls, stdout, stderr, running, last, everSet, closes, seen>>

\* mutant: the then handler throws after closing, into the catch chained on it
then_26_throws ==
    /\ pc = "resolved"
    /\ close
    /\ pc' = "rejected"
    /\ UNCHANGED <<stdout, stderr>>

\* lines 25-26: .then(() => { redisCache.close(); })
then_26 ==
    /\ pc = "resolved"
    /\ close
    /\ pc' = "done26"
    /\ UNCHANGED <<stdout, stderr>>

\* lines 27-29: .catch(err => { console.error('Error:', err); redisCache.close(); })
catch_28 ==
    /\ pc = "rejected"
    /\ stderr' = Append(stderr, <<"Error:", calls[AppCaller].err>>)
    /\ close
    /\ pc' = "done29"
    /\ UNCHANGED stdout

\* the connection has ended and nothing is left to run: node exits
exit ==
    /\ running
    /\ status = "end"
    /\ running' = FALSE
    /\ UNCHANGED <<store, status, queue, calls, stdout, stderr, pc, last, everSet, closes, seen>>

\* a second passes during the run, at most MaxAppTicks of them
appTick ==
    /\ \A k \in DOMAIN store :
          store[k].exp # <<>> => store[k].exp[1] > AppTtl - MaxAppTicks
    /\ \E k \in DOMAIN store : store[k].exp # <<>>
    /\ tick

\* line 22-25: the adapter is constructed and app.run() is entered at once
AppInit ==
    /\ store = <<>>
    /\ status = "connecting"
    /\ queue = <<>>
    /\ calls = [c \in {AppCaller} |-> Idle]
    /\ stdout = <<>>
    /\ stderr = <<>>
    /\ running = TRUE
    /\ pc = "l12"
    /\ last = [k \in Keys |-> Unknown]
    /\ everSet = {}
    /\ closes = 0
    /\ seen = [k \in {} |-> NotSeen]

AppNext ==
    \/ run_12
    \/ run_13
    \/ run_14_15
    \/ run_16
    \/ run_17
    \/ run_throws
    \/ then_26
    \/ catch_28
    \/ exit
    \/ pc # "l12" /\ connected
    \/ pc # "l12" /\ connectionLost
    \/ pc # "l12" /\ emitError
    \/ pc # "l12" /\ exec
    \/ pc # "l12" /\ commandFails
    \/ pc # "l12" /\ appTick

AppSpec == AppInit /\ [][AppNext]_vars

\* The same run with the handler of a settled run() called whenever it can be
\* (a settled promise's reaction is run before the event loop goes on).
AppLiveSpec == AppInit /\ [][AppNext]_vars /\ WF_vars(then_26) /\ WF_vars(catch_28)

(***************************************************************************)
(* Claims.                                                                 *)
(***************************************************************************)
\* caller c's pending call completes in this step
settles(c) == Pending(c) /\ calls'[c].pc # "pending"
getSettles(c) == settles(c) /\ calls[c].op = "get"
returns(c, v) == calls'[c].pc = "resolved" /\ calls'[c].result = v

\* C1: once set(k, v) with no ttl has completed and no delete(k) or further
\* set(k, ...) was issued, the entry is in the store with value v in every
\* state, however much time passes, and every get(k) that completes returns v.
C1_PlainSetPersists ==
    /\ [](\A k \in Keys : last[k].kind = "plain" =>
              k \in DOMAIN store /\ store[k].val = last[k].val)
    /\ [][\A c \in DOMAIN calls :
            getSettles(c) /\ last[calls[c].key].kind = "plain"
                => returns(c, last[calls[c].key].val)]_vars

\* C1 witness: a get returned v after set(k, v) without ttl and a second passed.
C1_Witness ==
    \E c \in DOMAIN calls :
        /\ calls[c].op = "get" /\ calls[c].pc = "resolved"
        /\ last[calls[c].key] = Plain(calls[c].result, 1)

\* C2: a get(k) when no set(k, ...) was ever issued completes with null and
\* never with an error.
C2_GetBeforeSetIsNull ==
    [][\A c \in DOMAIN calls :
          getSettles(c) /\ calls[c].key \notin everSet => returns(c, Null)]_vars

\* C2 witness: a get of a never-set key has completed with null.
C2_Witness ==
    \E c \in DOMAIN calls :
        /\ calls[c].op = "get" /\ calls[c].pc = "resolved"
        /\ calls[c].result = Null /\ calls[c].key \notin everSet

\* C3: after a completed delete(k) with no set(k, ...) issued since, every
\* get(k) that completes returns null, whatever the store held before.
C3_DeleteThenGetIsNull ==
    [][\A c \in DOMAIN calls :
          getSettles(c) /\ last[calls[c].key].kind = "deleted"
              => returns(c, Null)]_vars

\* C3 witness: a delete removed an entry and a following get returned null.
C3_Witness ==
    \E c \in DOMAIN calls :
        /\ calls[c].op = "get" /\ calls[c].pc = "resolved" /\ calls[c].result = Null
        /\ last[calls[c].key] = Deleted(1, "present")

\* C4: every delete(k) completes without error and leaves k absent; a
\* delete(k) that follows a completed delete(k) leaves the store as it was.
C4_DeleteIdempotent ==
    [][\A c \in DOMAIN calls :
          settles(c) /\ calls[c].op = "delete"
              => /\ calls'[c].pc = "resolved"
                 /\ calls[c].key \notin DOMAIN store'
                 /\ (last[calls[c].key].kind = "deleted" => store' = store)]_vars

\* C4 witness: two delete(k) in succession have completed, the second on an
\* absent key.
C4_Witness ==
    \E c \in DOMAIN calls :
        /\ calls[c].op = "delete" /\ calls[c].pc = "resolved"
        /\ last[calls[c].key] = Deleted(2, "absent")

\* C5 as stated: after set(k, v, ttl), a get(k) issued before ttl seconds have
\* passed returns v, and one issued after more than ttl seconds returns null.
C5_Original ==
    [][\A c \in DOMAIN calls :
          LET l == last[calls[c].key] IN
          getSettles(c) /\ l.kind = "timed"
              => /\ calls[c].fresh => returns(c, l.val)
                 /\ l.n > l.ttl => returns(c, Null)]_vars

\* C5 (amended): after set(k, v, ttl) with positive ttl has completed, a
\* get(k) the store executes before ttl seconds have passed returns v, and one
\* it executes after more than ttl seconds returns null.
C5_TtlExpiry ==
    [][\A c \in DOMAIN calls :
          LET l == last[calls[c].key] IN
          getSettles(c) /\ l.kind = "timed"
              => /\ l.n < l.ttl => returns(c, l.val)
                 /\ l.n > l.ttl => returns(c, Null)]_vars

\* C5 witness: within one window of a set with ttl, one get returned the value
\* and a later one, after the window, returned null.
C5_Witness ==
    \E c, d \in DOMAIN calls :
        LET l == last[calls[c].key] IN
        /\ calls[c].op = "get" /\ calls[c].pc = "resolved"
        /\ calls[d].op = "get" /\ calls[d].pc = "resolved"
        /\ calls[d].key = calls[c].key
        /\ l.kind = "timed" /\ l.n > l.ttl
        /\ calls[c].result = l.val /\ calls[d].result = Null

\* the lines App.run has logged, the adapter's own line left out
AppLines == SelectSeq(stdout, LAMBDA line : line # ConnectLine)
ExpectedLines == << <<"Cached Value:", AppValue>>, <<"Deleted Value:", Null>> >>
IsPrefix(p, q) == Len(p) <= Len(q) /\ SubSeq(q, 1, Len(p)) = p

commandsOf(c) == Cardinality({i \in 1..Len(queue) : queue[i].by = c})
makesCall(c) == ~Pending(c) /\ calls'[c] # calls[c]
headAnswered == queue # <<>> /\ queue' = Tail(queue)

\* C7: a call has exactly one command with the client while it is pending and
\* none otherwise; when the store rejects a command, the call that issued it
\* fails with that error and no other call does, no command is issued again
\* and the store is unchanged.
C7_CommandErrorPropagates ==
    /\ [](\A c \in DOMAIN calls : commandsOf(c) = IF Pending(c) THEN 1 ELSE 0)
    /\ [][\A c \in DOMAIN calls :
            makesCall(c) => Len(queue') = Len(queue) + 1 /\ commandsOf(c)' = 1]_vars
    /\ [][headAnswered /\ ~redis(store, Head(queue)).ok
            => /\ calls'[Head(queue).by].pc = "rejected"
               /\ calls'[Head(queue).by].err = redis(store, Head(queue)).err
               /\ \A d \in (DOMAIN calls) \ {Head(queue).by} : calls'[d].pc = calls[d].pc
               /\ store' = store]_vars

\* C7 witness: a set with a ttl the store refuses has failed, the store
\* holding what it held and another caller's call still pending.
C7_Witness ==
    \E c, d \in DOMAIN calls :
        /\ calls[c].pc = "rejected" /\ calls[c].err = ExpireError
        /\ Pending(d) /\ store # <<>>

\* C8: the 'error' event only adds the handler's line to the error log: no
\* call is settled, nothing queued is dropped, store and connection status
\* are as before and the process keeps running; a lost connection, too,
\* leaves every pending call pending.
C8_ErrorEventOnlyLogged ==
    /\ [][stderr' # stderr
            => /\ stderr' = Append(stderr, ErrorLine)
               /\ UNCHANGED <<calls, queue, store, status>>
               /\ running']_vars
    /\ [][status = "ready" /\ status' = "connecting"
            => UNCHANGED <<calls, queue, store, running>>]_vars

\* C8 witness: an error was logged, the process runs, and a call made while
\* the client was not connected has completed with its result.
C8_Witness ==
    \E c \in DOMAIN calls :
        /\ stderr = <<ErrorLine>> /\ calls[c].pc = "resolved" /\ calls[c].offline
        /\ running

\* C9: after construction the connection is not yet established; a call made
\* before it is is queued, not failed; calls complete only on a ready
\* connection and in the order they were issued; every pending call
\* eventually completes.
C9_QueuedUntilConnected ==
    /\ status = "connecting" /\ queue = <<>>
    /\ [][\A c \in DOMAIN calls :
            makesCall(c) /\ status # "ready"
                => /\ calls'[c].pc = "pending"
                   /\ queue' = Append(queue, queue'[Len(queue')])
                   /\ queue'[Len(queue')].by = c]_vars
    /\ [][\A c \in DOMAIN calls :
            settles(c) => status = "ready" /\ calls[c].ahead = 0]_vars
    /\ \A c \in Callers : Pending(c) ~> Settled(c)

\* C9 witness: two calls made before the connection was first established
\* have both completed.
C9_Witness ==
    /\ stdout = <<ConnectLine>>
    /\ \A c \in Callers : calls[c].pc = "resolved" /\ calls[c].offline

\* the contract's meaning of one call applied alone to store content s
contract(s, call) ==
    CASE call.op = "get" ->
           [store |-> s, pc |-> "resolved",
            result |-> IF call.key \in DOMAIN s THEN s[call.key].val ELSE Null]
      [] call.op = "set" ->
           IF call.ttl = <<>> \/ call.ttl[1] = 0
           THEN [store |-> With(s, call.key, [val |-> call.val, exp |-> <<>>]),
                 pc |-> "resolved", result |-> Void]
           ELSE IF call.ttl[1] > 0
           THEN [store |-> With(s, call.key, [val |-> call.val, exp |-> call.ttl]),
                 pc |-> "resolved", result |-> Void]
           ELSE [store |-> s, pc |-> "rejected", result |-> ""]
      [] call.op = "delete" ->
           [store |-> Without(s, call.key), pc |-> "resolved", result |-> Void]

\* C10: every call takes effect in one step: the step in which it completes
\* changes the store and yields the result exactly as the call applied alone
\* to the store would; calls complete one at a time; and the store changes
\* only in such a step or by the passing of time.
C10_CallsAtomic ==
    [][/\ \A c \in DOMAIN calls :
            settles(c)
                => /\ store' = contract(store, calls[c]).store
                   /\ calls'[c].pc = contract(store, calls[c]).pc
                   /\ calls'[c].result = contract(store, calls[c]).result
                   /\ \A d \in (DOMAIN calls) \ {c} : ~settles(d)
       /\ store' # store
            => (\E c \in DOMAIN calls : settles(c)) \/ store' = expire(store)]_vars

\* C10 witness: a get completed with the value of one caller's set while the
\* other caller's set of the same key was pending.
C10_Witness ==
    \E c, d \in DOMAIN calls :
        /\ calls[c].op = "get" /\ calls[c].pc = "resolved" /\ calls[c].result \in Values
        /\ Pending(d) /\ calls[d].op = "set" /\ calls[d].key = calls[c].key
        /\ calls[d].val # calls[c].result

\* C11: nothing makes a check-then-set atomic: a set that completes stores
\* its value whatever the key holds by then, so when two callers both got
\* null and both set, the set executed later replaces the earlier one's value.
C11_CheckThenSetRaces ==
    [][\A c \in DOMAIN calls :
          settles(c) /\ calls[c].op = "set"
              => /\ calls'[c].pc = "resolved"
                 /\ store'[calls[c].key].val = calls[c].val
                 /\ last'[calls[c].key].kind = "plain"
                        => last'[calls[c].key].val = calls[c].val]_vars

\* C11 witness: both callers got null, both have set, and the key holds the
\* value of the second caller's set, the first caller's value being lost.
C11_Witness ==
    /\ \A c \in Callers : calls[c].op = "set" /\ calls[c].pc = "resolved"
    /\ AppKey \in DOMAIN store /\ store[AppKey].val = ownValue("c2")
    /\ last[AppKey] = Plain(ownValue("c2"), 0)

\* C12: set(k, v, 0) is treated as set(k, v) with no ttl: every set hands the
\* client one SET command, with no expiry when ttl is omitted or 0 and with
\* ttl as its expiry otherwise; a set with ttl omitted or 0 completes without
\* error and stores v with no expiry; and once set(k, v, 0) has completed the
\* entry stays, with value v and no expiry, however much time passes, and
\* every get(k) that completes returns v.
C12_ZeroTtlIsNoTtl ==
    /\ [](\A k \in Keys : last[k].kind = "zero" =>
              k \in DOMAIN store /\ store[k] = [val |-> last[k].val, exp |-> <<>>])
    /\ [][\A c \in DOMAIN calls :
            makesCall(c) /\ calls'[c].op = "set"
                => LET cmd == queue'[Len(queue')] IN
                   /\ Len(queue') = Len(queue) + 1
                   /\ cmd.by = c /\ cmd.name = "SET"
                   /\ cmd.key = calls'[c].key /\ cmd.val = calls'[c].val
                   /\ cmd.ex = IF calls'[c].ttl \in {<<>>, <<0>>} THEN <<>>
                               ELSE calls'[c].ttl]_vars
    /\ [][\A c \in DOMAIN calls :
            settles(c) /\ calls[c].op = "set" /\ calls[c].ttl \in {<<>>, <<0>>}
                => /\ calls'[c].pc = "resolved"
                   /\ store' = With(store, calls[c].key,
                                    [val |-> calls[c].val, exp |-> <<>>])]_vars
    /\ [][\A c \in DOMAIN calls :
            getSettles(c) /\ last[calls[c].key].kind = "zero"
                => returns(c, last[calls[c].key].val)]_vars

\* C12 witness: a get returned v after set(k, v, 0) completed and a second
\* passed.
C12_Witness ==
    \E c \in DOMAIN calls :
        /\ calls[c].op = "get" /\ calls[c].pc = "resolved"
        /\ last[calls[c].key] = Zero(calls[c].result, 1)

\* the last completed set of k had no ttl and replaced an entry that had an
\* expiry
overwrote(k) == last[k].kind = "plain" /\ (last[k].ttl > 0 \/ last[k].n = 2)

\* C13: a set(k, v2) with no ttl that completes on an entry with an expiry
\* replaces it by v2 with no expiry; from then on, while no further set(k, ...)
\* or delete(k) is issued, the entry is v2 with no expiry, during what was
\* left of the earlier ttl and after it has passed, and every get(k) that
\* completes returns v2.
C13_OverwriteDropsTtl ==
    /\ [][\A c \in DOMAIN calls :
            /\ settles(c) /\ calls[c].op = "set" /\ calls[c].ttl = <<>>
            /\ calls[c].key \in DOMAIN store /\ store[calls[c].key].exp # <<>>
            => /\ calls'[c].pc = "resolved"
               /\ store'[calls[c].key] = [val |-> calls[c].val, exp |-> <<>>]]_vars
    /\ [](\A k \in Keys : overwrote(k) =>
              k \in DOMAIN store /\ store[k] = [val |-> last[k].val, exp |-> <<>>])
    /\ [][\A c \in DOMAIN calls :
            getSettles(c) /\ overwrote(calls[c].key)
                => returns(c, last[calls[c].key].val)]_vars

\* C13 witness: set(k, v2) with no ttl replaced an entry with an expiry, the
\* seconds that entry had left have passed, and a get returned v2.
C13_Witness ==
    \E c \in DOMAIN calls :
        /\ calls[c].op = "get" /\ calls[c].pc = "resolved"
        /\ last[calls[c].key] = Overwrote(calls[c].result, 0, 2)

\* run() has settled and its handler has not run yet
runSettled == pc \in {"resolved", "rejected"}
\* the then or the catch handler has run
handled == pc \in {"done26", "done29"}

\* C14: close() is never called twice; it is called only in the handler of a
\* settled run(), so it has been called once exactly when that handler has run
\* and not at all before; and whenever run() has settled, resolved or rejected,
\* close() comes to be called.
C14_ClosedExactlyOnce ==
    /\ [](closes <= 1)
    /\ [](closes = 1 <=> handled)
    /\ [][closes' # closes
            => closes' = closes + 1 /\ runSettled /\ handled' /\ status' = "end"]_vars
    /\ runSettled ~> closes = 1

\* C14 witness: the first get failed, run() rejected with delete and the
\* second get skipped, and close() has been called once, from the catch.
C14_Witness ==
    /\ pc = "done29" /\ closes = 1 /\ status = "end"
    /\ calls[AppCaller].op = "get" /\ calls[AppCaller].pc = "rejected"
    /\ AppLines = <<>>

\* the operation a call of the App may follow: set comes first, the first get
\* follows it, delete follows the get whose value is not logged yet, the
\* second get follows delete
follows(prev, op) ==
    \/ prev = "" /\ op = "set"
    \/ prev = "set" /\ op = "get"
    \/ prev = "get" /\ op = "delete" /\ AppLines = <<>>
    \/ prev = "delete" /\ op = "get"

\* C15: the App never has two commands with the client; it makes a call only
\* before close(), when its previous call, if any, has completed successfully
\* and nothing is queued, and in the order set, get, delete, get; and close()
\* is called only when no call is pending and nothing is queued.
C15_AppCallsInSequence ==
    /\ [](Len(queue) <= 1 /\ NumPending = Len(queue))
    /\ [][makesCall(AppCaller)
            => /\ closes = 0 /\ status # "end"
               /\ queue = <<>>
               /\ calls[AppCaller].pc \in {"idle", "resolved"}
               /\ calls'[AppCaller].pc = "pending"
               /\ follows(calls[AppCaller].op, calls'[AppCaller].op)]_vars
    /\ [][closes' # closes => ~Pending(AppCaller) /\ queue = <<>>]_vars

\* C15 witness: the four calls were made and answered one after the other,
\* and close() was called after the last, with nothing pending.
C15_Witness ==
    /\ closes = 1 /\ running /\ queue = <<>>
    /\ calls[AppCaller].op = "get" /\ calls[AppCaller].pc = "resolved"
    /\ Len(AppLines) = 2

\* what the store holds for key k: its entry, value and remaining ttl, or nothing
entry(s, k) == IF k \in DOMAIN s THEN <<s[k]>> ELSE <<>>
\* what a get(k) executed on store content s returns
getOn(s, k) == redis(s, GET(k)).reply

\* C16: when a set(k, ...) or delete(k) completes, every other key k' has the
\* entry it had, value and remaining ttl, and a get(k') would return what it
\* would have returned before, and what the last get(k') did return if k' has
\* not changed since; making a call changes nothing in the store; and the
\* entry of a key changes only when a set or delete of that very key
\* completes or a second passes.
C16_KeysIndependent ==
    /\ [][\A c \in DOMAIN calls :
            settles(c) /\ calls[c].op \in {"set", "delete"}
                => \A k \in Keys \ {calls[c].key} :
                      /\ entry(store', k) = entry(store, k)
                      /\ getOn(store', k) = getOn(store, k)
                      /\ seen[k] # NotSeen => getOn(store', k) = seen[k][1]]_vars
    /\ [][\A c \in DOMAIN calls : makesCall(c) => store' = store]_vars
    /\ [][\A k \in Keys :
            entry(store', k) # entry(store, k)
                => \/ store' = expire(store)
                   \/ \E c \in DOMAIN calls :
                         /\ settles(c) /\ calls[c].key = k
                         /\ calls[c].op \in {"set", "delete"}]_vars

\* C16 witness: delete(k) removed the entry of k; the other key, which a get
\* returned before, still holds that value with an expiry.
C16_Witness ==
    \E c \in DOMAIN calls :
        /\ calls[c].op = "delete" /\ calls[c].pc = "resolved"
        /\ calls[c].key = AppKey /\ last[AppKey] = Deleted(1, "present")
        /\ "otherKey" \in DOMAIN store /\ store["otherKey"].exp # <<>>
        /\ seen["otherKey"] = Seen(store["otherKey"].val, 1)

\* C17: a get leaves the store as it is, when it is made and when it
\* completes, and returns what the store holds for its key at that moment,
\* null when it holds nothing; the store changes only when a set or delete
\* completes or a second passes; and a get(k) that completes when no set(k, ...)
\* or delete(k) has completed and k has not expired since an earlier get(k)
\* returns what that get returned.
C17_GetReadsStore ==
    /\ [][\A c \in DOMAIN calls :
            makesCall(c) /\ calls'[c].op = "get" => store' = store]_vars
    /\ [][\A c \in DOMAIN calls :
            getSettles(c)
                => /\ store' = store
                   /\ returns(c, getOn(store, calls[c].key))]_vars
    /\ [][store' # store
            => \/ store' = expire(store)
               \/ \E c \in DOMAIN calls :
                     settles(c) /\ calls[c].op \in {"set", "delete"}]_vars
    /\ [][\A c \in DOMAIN calls :
            getSettles(c) /\ seen[calls[c].key] # NotSeen
                => returns(c, seen[calls[c].key][1])]_vars

\* C17 witness: two get(k) in succession returned the value of an entry that
\* has an expiry.
C17_Witness ==
    \E c \in DOMAIN calls :
        /\ calls[c].op = "get" /\ calls[c].pc = "resolved"
        /\ calls[c].key \in DOMAIN store /\ store[calls[c].key].exp # <<>>
        /\ seen[calls[c].key] = Seen(calls[c].result, 2)
        /\ calls[c].result = store[calls[c].key].val

====
